---- MODULE Spec2Model ----
(***************************************************************************)
(* Model of replace_logs.py: a directory walk that rewrites every .kt file *)
(* in place with eight regular-expression substitutions.                   *)
(*                                                                         *)
(* A text is a sequence of lexemes.  Each lexeme stands for a fixed piece  *)
(* of text; the pieces are chosen so that every literal of the eight       *)
(* patterns ("Log", ".d(", ",", "\"", ")", "import android.util.") is a    *)
(* whole lexeme and cannot arise across a lexeme boundary, and so that     *)
(* each lexeme lies wholly inside or wholly outside each character class   *)
(* of the patterns ([^,], [^"], [^\)], \s).                                *)
(***************************************************************************)
EXTENDS Integers, Sequences, FiniteSets, TLC

LOG == "Log"
GER == "ger"
IMP == "import android.util."
NEWIMP == "import com.quick.browser.util."
COMMA == ","
QUOTE == "\""
LPAREN == "("
RPAREN == ")"
SP == " "
BSL == "\\"
ID == "x"

Levels == {"d", "e", "w", "i", "v"}

\* the text ".<level>(" that follows "Log" in a call
DotOpen(l) ==
  CASE l = "d" -> ".d("
    [] l = "e" -> ".e("
    [] l = "w" -> ".w("
    [] l = "i" -> ".i("
    [] l = "v" -> ".v("

Max(S) == CHOOSE m \in S : \A n \in S : n <= m
Min(S) == CHOOSE m \in S : \A n \in S : m <= n
Longest(S) == IF S = {} THEN 0 ELSE Max(S)

\* the character classes of the patterns: [^,]  [^"]  [^\)]  \s
NotComma == "[^,]"
NotQuote == "[^\"]"
NotParen == "[^\\)]"
IsSpace == "\\s"

InClass(cls, c) ==
  CASE cls = NotComma -> c # COMMA
    [] cls = NotQuote -> c # QUOTE
    [] cls = NotParen -> c # RPAREN
    [] cls = IsSpace -> c = SP

\* first position at or after p whose lexeme is outside the class
\* (Len(t) + 1 when the class runs to the end of the text)
RunEnd(t, p, cls) ==
  LET stops == {q \in p..Len(t) : ~InClass(cls, t[q])}
  IN IF stops = {} THEN Len(t) + 1 ELSE Min(stops)

At(t, p, c) == p >= 1 /\ p <= Len(t) /\ t[p] = c

Slice(t, a, b) == SubSeq(t, a, b - 1)

NoMatch == [stop |-> 0, g1 |-> <<>>, g2 |-> <<>>, g3 |-> <<>>]

\* ([^\)]+)\) at s: the position of the closing parenthesis, 0 when none.
\* The greedy class is tried longest first.
ThirdClose(t, s) ==
  Longest({f \in (s + 1)..RunEnd(t, s, NotParen) : At(t, f, RPAREN)})

\* \s*([^\)]+)\) at p: where the third group starts, 0 when no match.
\* \s* is tried longest first and gives characters back to the group.
ThirdStart(t, p) ==
  LET ss == {s \in p..RunEnd(t, p, IsSpace) : ThirdClose(t, s) # 0}
  IN IF ss = {} THEN 0 ELSE Max(ss)

\* AfterMsg with the closing \) left out of the two-argument patterns
AfterMsg_noParen(t, d, three) ==
  IF ~three
  THEN d + 1
  ELSE IF At(t, d + 1, COMMA) /\ ThirdStart(t, d + 2) # 0
       THEN ThirdClose(t, ThirdStart(t, d + 2)) + 1
       ELSE 0

\* what follows the closing quote at d: \) for a two-argument pattern,
\* ,\s*([^\)]+)\) for a three-argument one.  The position after the match.
AfterMsg(t, d, three) ==
  IF ~three
  THEN IF At(t, d + 1, RPAREN) THEN d + 2 ELSE 0
  ELSE IF At(t, d + 1, COMMA) /\ ThirdStart(t, d + 2) # 0
       THEN ThirdClose(t, ThirdStart(t, d + 2)) + 1
       ELSE 0

\* MsgClose for the pattern (".*"), which runs over double quotes
MsgClose_dotStar(t, c, three) ==
  IF ~At(t, c, QUOTE) THEN 0
  ELSE Longest({d \in (c + 1)..Len(t) : At(t, d, QUOTE) /\ AfterMsg(t, d, three) # 0})

\* ("[^"]*") at c followed by the rest: position of the closing quote
MsgClose(t, c, three) ==
  IF ~At(t, c, QUOTE) THEN 0
  ELSE Longest({d \in (c + 1)..RunEnd(t, c + 1, NotQuote) :
                  At(t, d, QUOTE) /\ AfterMsg(t, d, three) # 0})

\* \s* at p followed by the rest: position of the opening quote
MsgOpen(t, p, three) ==
  Longest({c \in p..RunEnd(t, p, IsSpace) : MsgClose(t, c, three) # 0})

\* ([^,]+), at a followed by the rest: position of the comma
TagComma(t, a, three) ==
  Longest({b \in (a + 1)..RunEnd(t, a, NotComma) :
             At(t, b, COMMA) /\ MsgOpen(t, b + 1, three) # 0})

\* Log\.<l>\(([^,]+),\s*("[^"]*")\)  and, with three,
\* Log\.<l>\(([^,]+),\s*("[^"]*"),\s*([^\)]+)\)  matched at position i
MatchCall(t, i, l, three) ==
  IF ~(At(t, i, LOG) /\ At(t, i + 1, DotOpen(l))) THEN NoMatch
  ELSE LET b == TagComma(t, i + 2, three)
       IN IF b = 0 THEN NoMatch
          ELSE LET c == MsgOpen(t, b + 1, three)
                   d == MsgClose(t, c, three)
                   s == ThirdStart(t, d + 2)
               IN [stop |-> AfterMsg(t, d, three),
                   g1 |-> Slice(t, i + 2, b),
                   g2 |-> Slice(t, c, d + 1),
                   g3 |-> IF three THEN Slice(t, s, ThirdClose(t, s)) ELSE <<>>]

\* MatchImport for the pattern ^import android\.util\.Log
MatchImport_anchored(t, i) ==
  IF i = 1 /\ At(t, i, IMP) /\ At(t, i + 1, LOG)
  THEN [stop |-> i + 2, g1 |-> <<>>, g2 |-> <<>>, g3 |-> <<>>]
  ELSE NoMatch

\* import android\.util\.Log matched at position i
MatchImport(t, i) ==
  IF At(t, i, IMP) /\ At(t, i + 1, LOG)
  THEN [stop |-> i + 2, g1 |-> <<>>, g2 |-> <<>>, g3 |-> <<>>]
  ELSE NoMatch

\* Rules with the last call rule copied without changing its level
Rules_copiedLevel ==
  << [kind |-> "two", level |-> "d"],
     [kind |-> "two", level |-> "e"],
     [kind |-> "two", level |-> "w"],
     [kind |-> "two", level |-> "i"],
     [kind |-> "two", level |-> "v"],
     [kind |-> "three", level |-> "e"],
     [kind |-> "three", level |-> "e"],
     [kind |-> "import", level |-> "-"] >>

\* the eight substitutions, in the order of the source
Rules ==
  << [kind |-> "two", level |-> "d"],
     [kind |-> "two", level |-> "e"],
     [kind |-> "two", level |-> "w"],
     [kind |-> "two", level |-> "i"],
     [kind |-> "two", level |-> "v"],
     [kind |-> "three", level |-> "e"],
     [kind |-> "three", level |-> "w"],
     [kind |-> "import", level |-> "-"] >>

NumRules == Len(Rules)

Match(t, i, k) ==
  IF Rules[k].kind = "import" THEN MatchImport(t, i)
  ELSE MatchCall(t, i, Rules[k].level, Rules[k].kind = "three")

\* Replacement with the first two groups exchanged in the templates
Replacement_swapped(k, m) ==
  IF Rules[k].kind = "import" THEN <<NEWIMP, LOG, GER>>
  ELSE <<LOG, GER, DotOpen(Rules[k].level)>> \o m.g2 \o <<COMMA, SP>> \o m.g1
       \o (IF Rules[k].kind = "three" THEN <<COMMA, SP>> \o m.g3 ELSE <<>>)
       \o <<RPAREN>>

\* the replacement templates: Logger.<l>(\1, \2), Logger.<l>(\1, \2, \3)
\* and the fixed import line
Replacement(k, m) ==
  IF Rules[k].kind = "import" THEN <<NEWIMP, LOG, GER>>
  ELSE <<LOG, GER, DotOpen(Rules[k].level)>> \o m.g1 \o <<COMMA, SP>> \o m.g2
       \o (IF Rules[k].kind = "three" THEN <<COMMA, SP>> \o m.g3 ELSE <<>>)
       \o <<RPAREN>>

\* re.sub: leftmost non-overlapping matches, scanned left to right
RECURSIVE SubFrom(_, _, _)
SubFrom(t, k, i) ==
  IF i > Len(t) THEN <<>>
  ELSE LET m == Match(t, i, k)
       IN IF m.stop # 0
          THEN Replacement(k, m) \o SubFrom(t, k, m.stop)
          ELSE <<t[i]>> \o SubFrom(t, k, i + 1)

Sub(k, t) == SubFrom(t, k, 1)

RECURSIVE ApplyRules(_, _)
ApplyRules(order, t) ==
  IF order = <<>> THEN t
  ELSE ApplyRules(Tail(order), Sub(Head(order), t))

SourceOrder == [k \in 1..NumRules |-> k]

\* replace_log_calls writing the text back with a line break added
replace_log_calls_lineBreak(t) == ApplyRules(SourceOrder, t) \o <<SP>>

\* the text replace_log_calls writes back for the text it read
replace_log_calls(t) == ApplyRules(SourceOrder, t)

(***************************************************************************)
(* Call sites and the texts the rewriter is exercised on.                  *)
(***************************************************************************)

MaxMsg == 2
MaxRuns == 2
MaxFiles == 3

CallHead(l) == <<LOG, DotOpen(l)>>
ESCQ == <<BSL, QUOTE>>
IMPORT == <<IMP, LOG>>
NEWIMPORT == <<NEWIMP, LOG, GER>>

RECURSIVE Flatten(_)
Flatten(ps) == IF ps = <<>> THEN <<>> ELSE Head(ps) \o Flatten(Tail(ps))

\* sequences of at most n pieces of P
UpTo(P, n) == UNION {[1..k -> P] : k \in 0..n}

\* first arguments: an identifier, a string literal, an expression with a
\* comma, and expressions that hold a call head of the same or another level
Tags(l) ==
  { <<ID>>, <<QUOTE, ID, QUOTE>>, <<ID, LPAREN, ID, COMMA, ID, RPAREN>>,
    CallHead(l) \o <<ID>>, CallHead("e") \o <<ID>> }

Gaps == {<<>>, <<SP>>}

\* messages: up to MaxMsg pieces of ordinary text, commas, parentheses and
\* escaped double quotes, and a message that quotes the import line
MsgPieces == { <<ID>>, <<COMMA>>, <<RPAREN>>, ESCQ }
Msgs == {Flatten(ps) : ps \in UpTo(MsgPieces, MaxMsg)} \cup {IMPORT}

\* trailing third arguments (none for a two-argument call)
Trailings == { <<>>, <<ID>>, <<ID, LPAREN, RPAREN>> }

\* text before the call: nothing, the import line, the import prefix running
\* into the call, and a one-argument call of the same level
Pres(l) == { <<>>, IMPORT \o <<SP>>, <<IMP>>, CallHead(l) \o <<ID, RPAREN, SP>> }

Shapes ==
  [level : Levels, tag : UNION {Tags(l) : l \in Levels}, gap : Gaps, msg : Msgs,
   trailing : Trailings, pre : UNION {Pres(l) : l \in Levels}]

WellFormed(sh) == sh.tag \in Tags(sh.level) /\ sh.pre \in Pres(sh.level)

\* Log.<l>(<tag>,<gap>"<msg>") and Log.<l>(<tag>,<gap>"<msg>",<gap><trailing>)
CallText(name, sh, gap) ==
  name \o <<DotOpen(sh.level)>> \o sh.tag \o <<COMMA>> \o gap
    \o <<QUOTE>> \o sh.msg \o <<QUOTE>>
    \o (IF sh.trailing = <<>> THEN <<>> ELSE <<COMMA>> \o gap \o sh.trailing)
    \o <<RPAREN>>

Site(sh) == CallText(<<LOG>>, sh, sh.gap)
Converted(sh) == CallText(<<LOG, GER>>, sh, <<SP>>)
TextOf(sh) == sh.pre \o Site(sh)

NoShape ==
  [level |-> "d", tag |-> <<>>, gap |-> <<>>, msg |-> <<>>, trailing |-> <<>>, pre |-> <<>>]

(***************************************************************************)
(* The directory tree                                                      *)
(***************************************************************************)

directory == "app/src/main/java"
Dirs == {directory, "a", "a/b", "c"}
SubDirs(d) ==
  CASE d = directory -> {"a", "c"}
    [] d = "a" -> {"a/b"}
    [] OTHER -> {}

Files == 1..MaxFiles

FileTexts ==
  << <<LOG, ".d(", ID, COMMA, QUOTE, QUOTE, RPAREN>>,
     IMPORT,
     <<LOG, ".e(", ID, COMMA, QUOTE, QUOTE, COMMA, ID, RPAREN>> >>

InitialText(f) == FileTexts[((f - 1) % Len(FileTexts)) + 1]

Perms(S) ==
  {s \in [1..Cardinality(S) -> S] : \A i, j \in 1..Cardinality(S) : s[i] = s[j] => i = j}

ProperPrefixes(t) == {SubSeq(t, 1, n) : n \in 0..(Len(t) - 1)}

VARIABLES
  tree,     \* file -> [dir, kt]: where each file is and whether its name ends in .kt
  disk,     \* file -> text: the content of each file
  stack,    \* os.walk: directories still to be listed
  todo,     \* the rest of `files` of the directory being looped over
  cur,      \* the file replace_log_calls was called on (0: none)
  content,  \* replace_log_calls' local variable
  pc,       \* position of the script
  log,      \* file opens/writes, failures and printed lines, in order
  shape,    \* how the input text of the rewriter was assembled
  input,    \* the text given to the rewriter
  text,     \* the rewriter's current text
  runs,     \* how many times replace_log_calls was applied to text
  applied   \* the rules applied to text so far, one at a time

vars == <<tree, disk, stack, todo, cur, content, pc, log, shape, input, text, runs, applied>>
walkVars == <<tree, disk, stack, todo, cur, content, log>>
textVars == <<shape, input, text, runs, applied>>

\* EndsWithKt without the test of the name
EndsWithKt_any(f) == TRUE

\* file.endswith(".kt")
EndsWithKt(f) == tree[f].kt

FilesIn(d) == {f \in Files : tree[f].dir = d}

Init ==
  /\ tree \in [Files -> [dir : Dirs, kt : BOOLEAN]]
  /\ disk = [f \in Files |-> InitialText(f)]
  /\ stack = <<directory>>
  /\ todo = <<>>
  /\ cur = 0
  /\ content = <<>>
  /\ pc = "walk"
  /\ log = <<>>
  /\ shape = NoShape /\ input = <<>> /\ text = <<>> /\ runs = 0 /\ applied = {}

\* WalkDir that does not go down into sub-directories
WalkDir_flat ==
  /\ pc = "walk" /\ stack # <<>>
  /\ \E listing \in Perms(FilesIn(Head(stack))) : todo' = listing
  /\ stack' = Tail(stack)
  /\ pc' = "files"
  /\ UNCHANGED <<tree, disk, cur, content, log>> /\ UNCHANGED textVars

\* os.walk yields the next directory: its files in listing order, its
\* sub-directories queued in listing order ahead of the rest (top-down)
WalkDir ==
  /\ pc = "walk" /\ stack # <<>>
  /\ \E listing \in Perms(FilesIn(Head(stack))), subs \in Perms(SubDirs(Head(stack))) :
       /\ todo' = listing
       /\ stack' = subs \o Tail(stack)
  /\ pc' = "files"
  /\ UNCHANGED <<tree, disk, cur, content, log>> /\ UNCHANGED textVars

\* the inner loop has gone through `files`
EndOfDir ==
  /\ pc = "files" /\ todo = <<>>
  /\ pc' = "walk"
  /\ UNCHANGED walkVars /\ UNCHANGED textVars

\* a file whose name does not end in .kt
SkipFile ==
  /\ pc = "files" /\ todo # <<>> /\ ~EndsWithKt(Head(todo))
  /\ todo' = Tail(todo)
  /\ UNCHANGED <<tree, disk, stack, cur, content, pc, log>> /\ UNCHANGED textVars

\* replace_log_calls(file_path) is called
EnterFile ==
  /\ pc = "files" /\ todo # <<>> /\ EndsWithKt(Head(todo))
  /\ cur' = Head(todo)
  /\ todo' = Tail(todo)
  /\ pc' = "read"
  /\ UNCHANGED <<tree, disk, stack, content, log>> /\ UNCHANGED textVars

\* with open(file_path, 'r'): content = file.read()
ReadFile ==
  /\ pc = "read"
  /\ content' = disk[cur]
  /\ log' = Append(log, <<"read", cur>>)
  /\ pc' = "write"
  /\ UNCHANGED <<tree, disk, stack, todo, cur>> /\ UNCHANGED textVars

\* ReadFails with the exception caught and the loop going on
ReadFails_caught ==
  /\ pc = "read"
  /\ log' = Append(log, <<"fail", cur>>)
  /\ pc' = "files"
  /\ UNCHANGED <<tree, disk, stack, todo, cur, content>> /\ UNCHANGED textVars

\* open or read raises: the exception leaves the script
ReadFails ==
  /\ pc = "read"
  /\ log' = Append(log, <<"fail", cur>>)
  /\ pc' = "aborted"
  /\ UNCHANGED <<tree, disk, stack, todo, cur, content>> /\ UNCHANGED textVars

\* the eight substitutions, then with open(file_path, 'w'): file.write(content)
WriteFile ==
  /\ pc = "write"
  /\ disk' = [disk EXCEPT ![cur] = replace_log_calls(content)]
  /\ log' = Append(log, <<"write", cur>>)
  /\ pc' = "print"
  /\ UNCHANGED <<tree, stack, todo, cur, content>> /\ UNCHANGED textVars

\* open for writing raises (the file keeps its content) or the write raises
\* (the file, truncated by the open, holds some part of the new text)
WriteFails ==
  /\ pc = "write"
  /\ \E left \in {disk[cur]} \cup ProperPrefixes(replace_log_calls(content)) :
       disk' = [disk EXCEPT ![cur] = left]
  /\ log' = Append(log, <<"fail", cur>>)
  /\ pc' = "aborted"
  /\ UNCHANGED <<tree, stack, todo, cur, content>> /\ UNCHANGED textVars

\* print(f"Processed {file_path}")
PrintProcessed ==
  /\ pc = "print"
  /\ log' = Append(log, <<"Processed", cur>>)
  /\ cur' = 0
  /\ pc' = "files"
  /\ UNCHANGED <<tree, disk, stack, todo, content>> /\ UNCHANGED textVars

\* os.walk is exhausted: print("Finished processing all Kotlin files")
Finish ==
  /\ pc = "walk" /\ stack = <<>>
  /\ log' = Append(log, <<"Finished", 0>>)
  /\ pc' = "done"
  /\ UNCHANGED <<tree, disk, stack, todo, cur, content>> /\ UNCHANGED textVars

Next ==
  \/ WalkDir
  \/ EndOfDir
  \/ SkipFile
  \/ EnterFile
  \/ ReadFile
  \/ ReadFails
  \/ WriteFile
  \/ WriteFails
  \/ PrintProcessed
  \/ Finish

Spec == Init /\ [][Next]_vars

(***************************************************************************)
(* The rewriter alone, applied to a text built around one call site        *)
(***************************************************************************)

NoWalk ==
  /\ tree = [f \in Files |-> [dir |-> directory, kt |-> FALSE]]
  /\ disk = [f \in Files |-> <<>>]
  /\ stack = <<>> /\ todo = <<>> /\ cur = 0 /\ content = <<>> /\ log = <<>>

InitRewrite ==
  /\ NoWalk
  /\ pc = "text"
  /\ shape \in {sh \in Shapes : WellFormed(sh)}
  /\ input = TextOf(shape)
  /\ text = input
  /\ runs = 0
  /\ applied = {}

\* one run of replace_log_calls on the text
Rewrite ==
  /\ pc = "text" /\ runs < MaxRuns
  /\ text' = replace_log_calls(text)
  /\ runs' = runs + 1
  /\ UNCHANGED <<shape, input, applied, pc>> /\ UNCHANGED walkVars

NextRewrite == Rewrite

SpecRewrite == InitRewrite /\ [][NextRewrite]_vars

(***************************************************************************)
(* The call-rewriting rules applied one at a time, in any order            *)
(***************************************************************************)

CallRules == {k \in 1..NumRules : Rules[k].kind # "import"}
CallRuleOrder == SubSeq(SourceOrder, 1, Cardinality(CallRules))

\* texts in which several rules have matches: a call of any level whose
\* first argument may hold the head of another call, after another call
PermTags == { <<ID>>, CallHead("e") \o <<ID>>, CallHead("w") \o <<ID>> }
PermMsgs == { <<COMMA, SP, SP>>, <<RPAREN>> }
PermTrailings == { <<>>, <<ID>>, <<SP>> }
PermPres ==
  { <<>>,
    <<LOG, ".w(", ID, COMMA, QUOTE, QUOTE, COMMA, SP, SP, ID, RPAREN>>,
    <<LOG, ".e(", ID, COMMA, SP, SP, QUOTE>> }

InitPerm ==
  /\ NoWalk
  /\ pc = "rules"
  /\ shape \in [level : Levels, tag : PermTags, gap : Gaps, msg : PermMsgs,
                trailing : PermTrailings, pre : PermPres]
  /\ input = TextOf(shape)
  /\ text = input
  /\ runs = 0
  /\ applied = {}

\* content = re.sub(<pattern k>, <template k>, content) for one rule
ApplyRule(k) ==
  /\ pc = "rules" /\ k \notin applied
  /\ text' = Sub(k, text)
  /\ applied' = applied \cup {k}
  /\ UNCHANGED <<shape, input, runs, pc>> /\ UNCHANGED walkVars

NextPerm == \E k \in CallRules : ApplyRule(k)

SpecPerm == InitPerm /\ [][NextPerm]_vars

(***************************************************************************)
(* Properties of the rewriter                                              *)
(***************************************************************************)

Has(t, c) == \E i \in 1..Len(t) : t[i] = c
Occurrences(t, s) == {i \in 1..(Len(t) - Len(s) + 1) : SubSeq(t, i, i + Len(s) - 1) = s}
Contains(t, s) == Occurrences(t, s) # {}
Count(t, s) == Cardinality(Occurrences(t, s))

MatchesAt(t, k) == {i \in 1..Len(t) : Match(t, i, k).stop # 0}
NoRuleMatches(t) == \A k \in 1..NumRules : MatchesAt(t, k) = {}

TwoArg(sh) == sh.trailing = <<>>
ThreeArg(sh) == sh.trailing # <<>>
\* the levels the claims give a three-argument form
ThreeArgLevels == {"e", "w"}

\* the text before the call as the import rule leaves it
PreOut(sh) == IF sh.pre = IMPORT \o <<SP>> THEN NEWIMPORT \o <<SP>> ELSE sh.pre

\* a call with nothing else of the old facility in or around it: no comma in
\* the first argument, no Log in any argument, and before the call nothing or
\* the import line
Plain(sh) ==
  /\ ~Has(sh.tag, COMMA) /\ ~Has(sh.tag, LOG)
  /\ ~Has(sh.msg, LOG) /\ ~Has(sh.trailing, LOG)
  /\ sh.pre \in {<<>>, IMPORT \o <<SP>>}

\* the text is the call, and its arguments hold no Log
Alone(sh) == sh.pre = <<>> /\ ~Has(sh.tag, LOG) /\ ~Has(sh.msg, LOG)

\* the lexeme after the first double quote inside the message ("" when the
\* message ends there)
AfterFirstQuote(m) ==
  LET q == Min({i \in 1..Len(m) : m[i] = QUOTE})
  IN IF q < Len(m) THEN m[q + 1] ELSE ""

\* C1 (as claimed): a second run of replace_log_calls changes nothing.
C1_SecondRunNoOp ==
  runs >= 2 => text = replace_log_calls(input)

\* C2 (as claimed): every two-argument call with an escape-free message comes
\* out as Logger.<level>(<first argument>, "<message>"), whatever the first
\* argument is.  Stated for a text that is the call alone, with no Log text
\* inside its arguments.
C2_AnyFirstArgument ==
  (runs = 1 /\ TwoArg(shape) /\ ~Has(shape.msg, BSL) /\ Alone(shape))
    => \E g \in Gaps : Contains(text, CallText(<<LOG, GER>>, shape, g))

\* C2 (amended): a two-argument call whose first argument has no comma, whose
\* message has no double quote, and which has no other Log text in or around
\* it, comes out as Logger.<level>(<first argument>, "<message>") with both
\* arguments as they were, on each of the five levels.
C2_CommaFreeFirstArgument ==
  (runs >= 1 /\ TwoArg(shape) /\ Plain(shape) /\ ~Has(shape.msg, QUOTE))
    => text = PreOut(shape) \o Converted(shape)

C2_Witness ==
  /\ runs = 1 /\ TwoArg(shape) /\ Plain(shape) /\ ~Has(shape.msg, QUOTE)
  /\ shape.level = "v" /\ Has(shape.msg, COMMA) /\ Has(shape.tag, QUOTE)
  /\ text = Converted(shape)

\* C3 (as claimed): every three-argument call on e or w comes out as
\* Logger.<level>(...) with its arguments, and on d, i, v stays as it was.
\* Stated for a text that is the call alone, with no Log text inside its
\* arguments.
C3_AnyThreeArgCall ==
  (runs = 1 /\ ThreeArg(shape) /\ Alone(shape))
    => IF shape.level \in ThreeArgLevels
       THEN \E g \in Gaps : Contains(text, CallText(<<LOG, GER>>, shape, g))
       ELSE Contains(text, Site(shape))

\* C3 (amended): a three-argument call whose tag has no comma, whose message
\* has no double quote, and which has no other Log text in or around it, comes
\* out on e and w as Logger.<level>(<tag>, "<message>", <trailing>) with the
\* three arguments as they were, and on d, i, v is left unchanged.
C3_ThreeArgPlainCall ==
  (runs >= 1 /\ ThreeArg(shape) /\ Plain(shape) /\ ~Has(shape.msg, QUOTE))
    => text = PreOut(shape) \o
              (IF shape.level \in ThreeArgLevels THEN Converted(shape) ELSE Site(shape))

C3_Witness ==
  /\ runs = 1 /\ ThreeArg(shape) /\ Plain(shape) /\ ~Has(shape.msg, QUOTE)
  /\ shape.level = "w" /\ shape.gap = <<>> /\ Has(shape.trailing, RPAREN)
  /\ text = Converted(shape) /\ text # input

\* C4: a text in which no pattern matches is written back as it was read.
C4_NoMatchUnchanged ==
  (runs >= 1 /\ NoRuleMatches(input)) => text = input

C4_Witness ==
  /\ runs >= 1 /\ NoRuleMatches(input) /\ text = input
  /\ Contains(input, CallHead("d")) /\ Has(input, BSL) /\ ThreeArg(shape)

\* C5: every 'import android.util.Log' of the input is the fixed line
\* 'import com.quick.browser.util.Logger' in the output, and none remains.
C5_ImportReplaced ==
  runs >= 1 =>
    /\ ~Contains(text, IMPORT)
    /\ Count(text, NEWIMPORT) = Count(input, IMPORT) + Count(input, NEWIMPORT)

C5_Witness ==
  /\ runs = 1 /\ Count(input, IMPORT) = 2 /\ Count(text, NEWIMPORT) = 2
  /\ Contains(text, <<LOG, GER, ".e(">>)

C10_EscapedOrParenthesisedUnchanged ==
  (runs = 1 /\ Alone(shape) /\ ~Has(shape.tag, COMMA)
     /\ (Contains(shape.msg, ESCQ) \/ (ThreeArg(shape) /\ Has(shape.trailing, RPAREN))))
    => Contains(text, Site(shape))

\* C10 (amended): a call whose message holds an escaped double quote is left
\* as it was when that quote is not directly followed by ')' or ','; a call on
\* e or w whose third argument holds parentheses is rewritten like any other,
\* to Logger.<level>(...) with its text kept.
C10_EscapedUnchangedParenthesisedRewritten ==
  (runs = 1 /\ Plain(shape)) =>
    /\ (Contains(shape.msg, ESCQ) /\ AfterFirstQuote(shape.msg) \notin {RPAREN, COMMA})
         => text = PreOut(shape) \o Site(shape)
    /\ (~Has(shape.msg, QUOTE) /\ Has(shape.trailing, RPAREN) /\ shape.level \in ThreeArgLevels)
         => text = PreOut(shape) \o Converted(shape)

C10_Witness ==
  /\ runs = 1 /\ Plain(shape) /\ shape.pre = <<>>
  /\ shape.msg = <<ID>> \o ESCQ /\ shape.trailing = <<ID, LPAREN, RPAREN>>
  /\ shape.level = "e" /\ text = input

(***************************************************************************)
(* Properties of the walk                                                  *)
(***************************************************************************)

Events(kind, f) == {i \in 1..Len(log) : log[i] = <<kind, f>>}
Mentioned(f) == \E i \in 1..Len(log) : log[i][2] = f
KtFiles == {f \in Files : tree[f].kt}
Rewritten(f) == disk[f] = replace_log_calls(InitialText(f))

\* C6: a file whose name does not end in .kt is never opened, read or
\* written, and keeps its content, whether the run completes or aborts.
C6_OtherFilesUntouched ==
  \A f \in Files \ KtFiles : disk[f] = InitialText(f) /\ ~Mentioned(f)

C6_Witness ==
  /\ pc = "done"
  /\ \E f \in Files \ KtFiles, g \in KtFiles :
       /\ tree[f].dir = tree[g].dir
       /\ replace_log_calls(InitialText(f)) # InitialText(f)
       /\ disk[g] # InitialText(g)

\* C7: in a run without I/O failure every .kt file at any depth is read,
\* rewritten and reported exactly once, in that order and with no other
\* file's operation in between, and the completion line is printed once, last.
C7_EveryKtFileOnce ==
  pc = "done" =>
    /\ \A f \in KtFiles :
         /\ Cardinality(Events("read", f)) = 1
         /\ Cardinality(Events("write", f)) = 1
         /\ Cardinality(Events("Processed", f)) = 1
         /\ \E i \in Events("read", f) :
              i + 1 \in Events("write", f) /\ i + 2 \in Events("Processed", f)
         /\ Rewritten(f)
    /\ Events("Finished", 0) = {Len(log)}
    /\ \A f \in Files : Events("fail", f) = {}

C7_Witness ==
  /\ pc = "done"
  /\ \E f, g \in KtFiles :
       /\ f # g /\ tree[f].dir = "a/b" /\ tree[g].dir = directory
       /\ disk[f] # InitialText(f)
       /\ Events("Processed", g) # {}

\* C8: when opening, reading or writing a file fails the run stops there:
\* nothing is logged after the failure, the failing file is not reported, the
\* files reported before it keep their rewritten content, the files not yet
\* reached keep their content, and the completion line is not printed.
C8_FailureAborts ==
  /\ pc = "aborted" => Len(log) > 0 /\ log[Len(log)] = <<"fail", cur>>
  /\ \A i \in 1..Len(log) :
       log[i][1] = "fail" =>
         /\ i = Len(log) /\ pc = "aborted"
         /\ Events("Processed", log[i][2]) = {}
         /\ Events("Finished", 0) = {}
         /\ \A g \in Files :
              /\ Events("Processed", g) # {} => Rewritten(g)
              /\ ~Mentioned(g) => disk[g] = InitialText(g)

C8_Witness ==
  /\ pc = "aborted" /\ KtFiles = Files
  /\ \E g \in Files : Events("Processed", g) # {} /\ disk[g] # InitialText(g)
  /\ \E g \in Files : ~Mentioned(g) /\ ~Rewritten(g)
  /\ disk[cur] # InitialText(cur) /\ ~Rewritten(cur)

====
